---- MODULE Spec2Model ----
(***************************************************************************)
(* A model of the PhantomJS environment of goose-phantom-environment:      *)
(* proxy rotation and the navigation retry loop, the redirect chain, the   *)
(* resource allow/deny filter (lib/PhantomEnvironment.js) and the          *)
(* request-pattern waiters of the promise-based variant of the same file.  *)
(***************************************************************************)
EXTENDS Integers, Sequences, FiniteSets, TLC

(***************************************************************************)
(* Bounds of the model.                                                    *)
(***************************************************************************)
MaxUrlLen == 2
MaxPatterns == 2
MaxWaiters == 2
MaxRequestEvents == 2
MaxProxies == 2
MaxAttempts == 4
MaxSetProxy == 1
MaxGotos == 2
MaxRedirects == 2
MaxProxyErrors == 1
MaxPageWaiters == 2
MaxLoadEvents == 2
MaxTearDowns == 2
MaxRecorded == 3
MaxBundles == 2

(***************************************************************************)
(* Strings are sequences of characters; String.prototype.match with a      *)
(* pattern made of plain characters finds the pattern as a substring.      *)
(***************************************************************************)
Chars == {"a", "b"}

SeqsUpTo(S, n) == UNION {[1..k -> S] : k \in 0..n}

Urls == SeqsUpTo(Chars, MaxUrlLen) \ {<<>>}

Patterns == {<<"a">>, <<"b">>, <<"a", "b">>}

\* url.match(urlPattern) !== null
Match(url, urlPattern) ==
  \E i \in 0..(Len(url) - Len(urlPattern)) :
    SubSeq(url, i + 1, i + Len(urlPattern)) = urlPattern

\* array.some(urlPattern => url.match(urlPattern) !== null)
SomeMatch(url, urlPatterns) ==
  \E k \in 1..Len(urlPatterns) : Match(url, urlPatterns[k])

(***************************************************************************)
(* options.resources: each list is null or an array of patterns.           *)
(***************************************************************************)
NullList == [isArray |-> FALSE, items |-> <<>>]

ResourceLists ==
  {NullList} \cup {[isArray |-> TRUE, items |-> s] : s \in SeqsUpTo(Patterns, MaxPatterns)}

VARIABLES
  allowedUrls,        \* options.resources.allowed
  blockedUrls,        \* options.resources.denied
  request,            \* the last resource request handed to onResourceRequested
  requestingActions,  \* _requestingActions: the queue of request-pattern waiters
  waiters,            \* every waiter registered so far: pattern, timer, promise, calls
  requestEvents,      \* number of navigation-requested events delivered
  lastNavigation,     \* the last navigation-requested event: url, queue before, callbacks run
  proxy,              \* _proxy: null, one proxy or a list of proxies
  proxyRotator,       \* options.proxyRotator is a function
  proxyIndicators,    \* _proxyIndicators
  proxyCurrent,       \* _proxyCurrent
  engineProxy,        \* the proxy last handed to phantom.setProxy
  pendingProxy,       \* the argument of the _applyProxy call in flight
  proxyErrors,        \* _proxyErrors
  thisUrl,            \* _url
  redirectUrls,       \* _redirectUrls
  pc,                 \* where the session is: new, idle, open, setProxy, failed
  caller,             \* who awaits the rotation in flight: prepare or goto
  outcome,            \* how the last prepare/goto ended
  attempts,           \* the proxies the page.open calls of the current goto went through
  rotation,           \* the last _rotateProxy call over a list
  configured,         \* the length of the proxy list last configured
  evictions,          \* proxies spliced out of the list since it was configured
  setProxyCalls,      \* number of setProxy calls
  gotos,              \* number of goto calls
  redirectLog,        \* per entry of _redirectUrls, the response that added it
  cleared,            \* how many redirects the last goto dropped
  navigationActions,  \* _navigationActions: the queue of navigation waiters
  pageWaiters,        \* every navigation waiter registered so far: timer, promise, error, calls
  loadEvents,         \* number of load-finished events delivered
  lastLoad,           \* the last load-finished event: status, error, queue before, callbacks run
  mainLoad,           \* the last load-finished event of lib/PhantomEnvironment.js: status, args.error
  phantomJS,          \* _phantomJS holds an instance
  page,               \* _page holds a page
  engineProcess,      \* the PhantomJS process: none, alive, exited
  exitHandlers,       \* _exitHandlers: the resolvers of the tearDown calls in flight
  tearDowns,          \* every tearDown call so far: timer, resolve() calls, how it was resolved
  exitRequests,       \* number of phantomJs.exit() calls
  pageCloses,         \* number of page.close() calls
  lastExit,           \* the last exit notification: code, signal, handlers before, handlers run
  gotoArg,            \* the url argument of the last goto call
  lastOpen,           \* the status the last page.open callback was called with
  errorUrl,           \* the url the message of the last 'Page ... was not loaded' error names
  returned,           \* what the last _rotateProxy call that returned resolved with
  commands,           \* prepare, stage by stage: the calls issued to the engine, in order
  applied,            \* how many of them the engine has carried out and answered
  stage,              \* how many stages of prepare have been started
  lastEvent,          \* the last engine event a handler was called with, where events are observed
  observing,          \* the events the handlers are called with are kept in lastEvent
  injected,           \* the last goto call has injected the vendor files
  browserEnvInjected, \* _browserEnvInjected
  bundles             \* number of times the browser bundle was injected

filterVars == <<allowedUrls, blockedUrls, request>>
waiterVars == <<requestingActions, waiters, requestEvents, lastNavigation>>
proxyVars == <<proxy, proxyRotator, proxyCurrent, engineProxy, pendingProxy,
               rotation, configured, evictions, setProxyCalls>>
pageVars == <<proxyIndicators, proxyErrors, thisUrl, redirectUrls, pc, caller, outcome,
              attempts, gotos, redirectLog, cleared>>
loadVars == <<navigationActions, pageWaiters, loadEvents, lastLoad, mainLoad>>
engineVars == <<phantomJS, page, engineProcess, exitHandlers, tearDowns, exitRequests,
                pageCloses, lastExit>>
auditVars == <<gotoArg, lastOpen, errorUrl, returned>>
prepareVars == <<commands, applied, stage>>
eventVars == <<lastEvent, observing>>
injectVars == <<injected, browserEnvInjected, bundles>>
vars == <<allowedUrls, blockedUrls, request,
          requestingActions, waiters, requestEvents, lastNavigation,
          proxy, proxyRotator, proxyIndicators, proxyCurrent, engineProxy, pendingProxy,
          proxyErrors, thisUrl, redirectUrls, pc, caller, outcome, attempts, rotation,
          configured, evictions, setProxyCalls, gotos, redirectLog, cleared,
          navigationActions, pageWaiters, loadEvents, lastLoad, mainLoad,
          phantomJS, page, engineProcess, exitHandlers, tearDowns, exitRequests,
          pageCloses, lastExit, gotoArg, lastOpen, errorUrl, returned,
          commands, applied, stage, lastEvent, observing,
          injected, browserEnvInjected, bundles>>

(***************************************************************************)
(* onResourceRequested                                                     *)
(***************************************************************************)
NoRequest == [seen |-> FALSE, url |-> <<>>, aborted |-> FALSE]

hasAllowedUrls == allowedUrls.isArray /\ Len(allowedUrls.items) > 0

hasBlockedUrls == blockedUrls.isArray /\ Len(blockedUrls.items) > 0

allowed(url) == ~hasAllowedUrls \/ SomeMatch(url, allowedUrls.items)

\* blocked computed from the deny-list alone
blocked_IgnoringAllowList(url) ==
  IF hasBlockedUrls THEN SomeMatch(url, blockedUrls.items) ELSE FALSE

blocked(url) ==
  IF ~hasAllowedUrls /\ hasBlockedUrls THEN SomeMatch(url, blockedUrls.items) ELSE FALSE

onResourceRequested ==
  \E url \in Urls :
    /\ request' = [seen |-> TRUE, url |-> url, aborted |-> (~allowed(url) \/ blocked(url))]
    /\ UNCHANGED <<allowedUrls, blockedUrls>>
    /\ UNCHANGED waiterVars
    /\ UNCHANGED <<proxyVars, pageVars>>
    /\ UNCHANGED <<loadVars, engineVars>>
    /\ UNCHANGED <<auditVars, prepareVars, eventVars, injectVars>>

(***************************************************************************)
(* Request-pattern waiters (waitForQuery, onNavigationRequested).  A waiter *)
(* is known by its registration number; requestingActions holds the        *)
(* numbers of the queued ones.                                             *)
(***************************************************************************)
NoNavigation == [seen |-> FALSE, url |-> <<>>, before |-> <<>>, called |-> <<>>]

\* waitForQuery(uri): start the timer, queue {pattern, fn}
waitForQuery ==
  \E uri \in Patterns :
    /\ Len(waiters) < MaxWaiters
    /\ waiters' = Append(waiters, [pattern |-> uri, timer |-> TRUE,
                                   promise |-> "pending", calls |-> 0, results |-> <<>>])
    /\ requestingActions' = Append(requestingActions, Len(waiters) + 1)
    /\ UNCHANGED <<requestEvents, lastNavigation>>
    /\ UNCHANGED <<filterVars, proxyVars, pageVars>>
    /\ UNCHANGED <<loadVars, engineVars>>
    /\ UNCHANGED <<auditVars, prepareVars, eventVars, injectVars>>

\* the setTimeout callback of waitForQuery: empty the queue, reject the promise
waitForQueryTimeout ==
  \E w \in 1..Len(waiters) :
    /\ waiters[w].timer
    /\ requestingActions' = <<>>
    /\ waiters' = [waiters EXCEPT ![w].timer = FALSE,
                                  ![w].promise = IF @ = "pending" THEN "rejected" ELSE @]
    /\ UNCHANGED <<requestEvents, lastNavigation>>
    /\ UNCHANGED <<filterVars, proxyVars, pageVars>>
    /\ UNCHANGED <<loadVars, engineVars>>
    /\ UNCHANGED <<auditVars, prepareVars, eventVars, injectVars>>

\* the loop leaving at its first match
RECURSIVE navigationLoop_FirstMatchOnly(_, _, _, _)
navigationLoop_FirstMatchOnly(actions, i, url, called) ==
  IF i < Len(actions)
  THEN LET action == actions[i + 1] IN
       IF Match(url, waiters[action].pattern)
       THEN [actions |-> Tail(actions), called |-> Append(called, action)]
       ELSE navigationLoop_FirstMatchOnly(actions, i + 1, url, called)
  ELSE [actions |-> actions, called |-> called]

\* the while loop of onNavigationRequested: i is the 0-based index, called the
\* actions whose fn has been run so far
RECURSIVE navigationLoop(_, _, _, _)
navigationLoop(actions, i, url, called) ==
  IF i < Len(actions)
  THEN LET action == actions[i + 1] IN
       IF Match(url, waiters[action].pattern)
       THEN navigationLoop(Tail(actions), i, url, Append(called, action))
       ELSE navigationLoop(actions, i + 1, url, called)
  ELSE [actions |-> actions, called |-> called]

Occurrences(s, x) == Cardinality({k \in 1..Len(s) : s[k] = x})

\* action.fn(null, url) run n times: clearTimeout, resolve(results)
fn(waiter, url, n) ==
  IF n = 0 THEN waiter
  ELSE [waiter EXCEPT !.timer = FALSE,
                      !.calls = @ + n,
                      !.promise = IF @ = "pending" THEN "resolved" ELSE @,
                      !.results = IF waiter.promise = "pending" THEN url ELSE @]

onNavigationRequested ==
  \E url \in Urls :
    /\ requestEvents < MaxRequestEvents
    /\ LET done == navigationLoop(requestingActions, 0, url, <<>>) IN
       /\ requestingActions' = done.actions
       /\ waiters' = [w \in 1..Len(waiters) |->
                        fn(waiters[w], url, Occurrences(done.called, w))]
       /\ lastNavigation' = [seen |-> TRUE, url |-> url,
                             before |-> requestingActions, called |-> done.called]
    /\ requestEvents' = requestEvents + 1
    /\ UNCHANGED <<filterVars, proxyVars, pageVars>>
    /\ UNCHANGED <<loadVars, engineVars>>
    /\ UNCHANGED <<auditVars, prepareVars, eventVars, injectVars>>

(***************************************************************************)
(* Proxies.  A Proxy is {host, port, username}; NoProxy stands for null    *)
(* and undefined.  _proxy is null, one proxy or an array of proxies.       *)
(***************************************************************************)
NoProxy == [host |-> "", port |-> 0, username |-> ""]

Proxy(h, p, u) == [host |-> h, port |-> p, username |-> u]

\* two entries with one host and port, and a third on another port
AllProxies == {Proxy("h1", 80, "u1"), Proxy("h1", 80, "u2"), Proxy("h1", 81, "u1")}

NullConfig == [kind |-> "null", items |-> <<>>]

SingleConfigs == {[kind |-> "single", items |-> <<p>>] : p \in AllProxies}

ListConfigs(n) == {[kind |-> "list", items |-> s] : s \in SeqsUpTo(AllProxies, n)}

ProxyConfigs == {NullConfig} \cup SingleConfigs \cup ListConfigs(MaxProxies)

\* the configurations setProxy is called with
NewProxyConfigs == {NullConfig} \cup SingleConfigs \cup ListConfigs(1)

NoRotation ==
  [n |-> 0, current |-> NoProxy, evicted |-> NoProxy, found |-> NoProxy, remaining |-> <<>>]

\* item.host === current.host && item.port === current.port
sameHostPort(item, current) == item.host = current.host /\ item.port = current.port

\* this._proxy.findIndex(...): the 1-based index of the first match, 0 for -1
findIndex(list, current) ==
  IF \E k \in 1..Len(list) : sameHostPort(list[k], current)
  THEN CHOOSE k \in 1..Len(list) :
         /\ sameHostPort(list[k], current)
         /\ \A j \in 1..(k - 1) : ~sameHostPort(list[j], current)
  ELSE 0

\* the element moved to the end of the list
splice_PushBack(list, index) ==
  SubSeq(list, 1, index - 1) \o SubSeq(list, index + 1, Len(list)) \o <<list[index]>>

\* list.splice(index, 1)
splice(list, index) == SubSeq(list, 1, index - 1) \o SubSeq(list, index + 1, Len(list))

\* the list left as it is
removeUnavailableProxy_KeepsList(list, current) == [list |-> list, removed |-> NoProxy]

\* _removeUnavailableProxy: the list it leaves and the proxy it returns
removeUnavailableProxy(list, current) ==
  IF Len(list) = 0 \/ current = NoProxy
  THEN [list |-> list, removed |-> NoProxy]
  ELSE LET index == findIndex(list, current) IN
       IF index # 0
       THEN [list |-> splice(list, index), removed |-> list[index]]
       ELSE [list |-> list, removed |-> NoProxy]

\* what the selection of _rotateProxy can yield over the remaining list:
\* lodash sample picks any entry (undefined on an empty list); a rotator
\* "should return Proxy from the list" and may return nothing
foundProxies(list) ==
  {list[k] : k \in 1..Len(list)} \cup
    (IF proxyRotator \/ Len(list) = 0 THEN {NoProxy} ELSE {})

\* page.open(url, callback) issued through the proxy the engine holds
openPage ==
  /\ pc' = "open"
  /\ attempts' = Append(attempts, engineProxy)

\* _applyProxy(p): phantom.setProxy(...) issued; the callback is setProxyCallback
applyProxy(p, who) ==
  /\ engineProxy' = p
  /\ pendingProxy' = p
  /\ pc' = "setProxy"
  /\ caller' = who

\* the rotation applying whatever was found
rotateProxyList_NoThrow(who) ==
  LET cut == removeUnavailableProxy(proxy.items, proxyCurrent) IN
  \E foundProxy \in foundProxies(cut.list) :
    /\ proxy' = [proxy EXCEPT !.items = cut.list]
    /\ evictions' = IF cut.removed # NoProxy THEN evictions + 1 ELSE evictions
    /\ proxyErrors' = <<>>
    /\ rotation' = [n |-> rotation.n + 1, current |-> proxyCurrent,
                    evicted |-> cut.removed, found |-> foundProxy, remaining |-> cut.list]
    /\ applyProxy(foundProxy, who)
    /\ UNCHANGED outcome

\* _rotateProxy over a list, up to the call of _applyProxy or the throw
rotateProxyList(who) ==
  LET cut == removeUnavailableProxy(proxy.items, proxyCurrent) IN
  \E foundProxy \in foundProxies(cut.list) :
    /\ proxy' = [proxy EXCEPT !.items = cut.list]
    /\ evictions' = IF cut.removed # NoProxy THEN evictions + 1 ELSE evictions
    /\ proxyErrors' = <<>>
    /\ rotation' = [n |-> rotation.n + 1, current |-> proxyCurrent,
                    evicted |-> cut.removed, found |-> foundProxy, remaining |-> cut.list]
    /\ IF foundProxy = NoProxy
       THEN /\ outcome' = "No proxy found"
            /\ pc' = IF who = "prepare" THEN "failed" ELSE "idle"
            /\ UNCHANGED <<engineProxy, pendingProxy, caller>>
       ELSE /\ applyProxy(foundProxy, who)
            /\ UNCHANGED outcome

\* an error naming no url
notLoaded_Anonymous(u) == [protocol |-> "", hostname |-> "", port |-> "", path |-> ""]

\* new Error(`Page ${url} was not loaded`): the url the message names
notLoaded(u) == u

\* a callback resolving with nothing
resolveProxy_Nothing(p) == NoProxy

\* resolve(proxy) in the callback of phantom.setProxy
resolveProxy(p) == p

\* _rotateProxy, called by prepare or by the callback of page.open
rotateProxy(who) ==
  CASE proxy.kind = "null" ->
         \* return null
         /\ IF who = "prepare"
            THEN pc' = "idle" /\ UNCHANGED <<outcome, errorUrl>>
            ELSE /\ pc' = "idle"
                 /\ outcome' = "Page was not loaded"
                 /\ errorUrl' = notLoaded(thisUrl)
         /\ returned' = NoProxy
         /\ UNCHANGED <<proxy, evictions, proxyErrors, rotation, engineProxy,
                        pendingProxy, caller>>
    [] proxy.kind = "single" ->
         /\ applyProxy(proxy.items[1], who)
         /\ UNCHANGED <<proxy, evictions, proxyErrors, rotation, outcome>>
         /\ UNCHANGED <<returned, errorUrl>>
    [] proxy.kind = "list" ->
         /\ rotateProxyList(who)
         /\ UNCHANGED <<returned, errorUrl>>

\* _setup(): _createInstance stores the instance, _createPage the page
setup ==
  /\ phantomJS' = TRUE
  /\ page' = TRUE
  /\ engineProcess' = "alive"
  /\ UNCHANGED <<exitHandlers, tearDowns, exitRequests, pageCloses, lastExit>>

\* prepare(): the engine and the page are created, the page's handlers are
\* bound, then the initial rotation
prepare ==
  /\ pc = "new"
  /\ setup
  /\ rotateProxy("prepare")
  /\ UNCHANGED <<proxyRotator, proxyCurrent, configured, setProxyCalls>>
  /\ UNCHANGED <<proxyIndicators, thisUrl, redirectUrls, attempts, gotos, redirectLog, cleared>>
  /\ UNCHANGED <<filterVars, waiterVars>>
  /\ UNCHANGED loadVars
  /\ UNCHANGED <<gotoArg, lastOpen, prepareVars, eventVars, injectVars>>

\* the callback of phantom.setProxy in _applyProxy; _openPage then opens again
setProxyCallback ==
  /\ pc = "setProxy"
  /\ proxyCurrent' = pendingProxy
  /\ returned' = resolveProxy(pendingProxy)
  /\ IF caller = "prepare"
     THEN pc' = "idle" /\ UNCHANGED attempts
     ELSE Len(attempts) < MaxAttempts /\ openPage
  /\ UNCHANGED <<proxy, proxyRotator, engineProxy, pendingProxy, rotation, configured,
                 evictions, setProxyCalls>>
  /\ UNCHANGED <<proxyIndicators, proxyErrors, thisUrl, redirectUrls, caller, outcome,
                 gotos, redirectLog, cleared>>
  /\ UNCHANGED <<filterVars, waiterVars>>
  /\ UNCHANGED <<loadVars, engineVars>>
  /\ UNCHANGED <<gotoArg, lastOpen, errorUrl, prepareVars, eventVars, injectVars>>

\* setProxy(proxy)
setProxy ==
  \E p \in NewProxyConfigs :
    /\ setProxyCalls < MaxSetProxy
    /\ proxy' = p
    /\ configured' = Len(p.items)
    /\ evictions' = 0
    /\ setProxyCalls' = setProxyCalls + 1
    /\ UNCHANGED <<proxyRotator, proxyCurrent, engineProxy, pendingProxy, rotation>>
    /\ UNCHANGED pageVars
    /\ UNCHANGED <<filterVars, waiterVars>>
    /\ UNCHANGED <<loadVars, engineVars>>
    /\ UNCHANGED <<auditVars, prepareVars, eventVars, injectVars>>

(***************************************************************************)
(* URLs.  A URL is what url.parse makes of it: protocol, hostname, port        *)
(* and path; a Location value may lack protocol and hostname (a relative   *)
(* path) and the empty string is NoUrl.                                    *)
(***************************************************************************)
NoUrl == [protocol |-> "", hostname |-> "", port |-> "", path |-> ""]

Url(h, p) == [protocol |-> "http:", hostname |-> h, port |-> p, path |-> "/"]

PageUrls == {Url(h, p) : h \in {"a.com", "b.com"}, p \in {"", "8080"}}

RelativeUrl == [protocol |-> "", hostname |-> "", port |-> "", path |-> "/"]

\* the values of a Location header
Locations == {Url("b.com", ""), RelativeUrl}

\* name.toLowerCase()
toLowerCase(name) == IF name = "Location" THEN "location" ELSE name

NoHeader == [name |-> "", value |-> NoUrl]

Headers ==
  {<<>>, <<[name |-> "Server", value |-> Url("a.com", "")]>>}
    \cup {<<[name |-> "Location", value |-> v]>> : v \in Locations}

\* a resource names its redirect in redirectUrl, in a header, in both or not
\* at all; one 301 stands for the moved-permanently responses
Resources ==
  {[url |-> u, status |-> s, redirectUrl |-> rh[1], headers |-> rh[2]] :
     u \in PageUrls \ {Url("b.com", "8080")}, s \in {200, 302},
     rh \in ({NoUrl} \X Headers) \cup {<<Url("a.com", "8080"), <<>> >>}
              \cup {<<Url("a.com", ""), <<[name |-> "Location", value |-> Url("b.com", "")]>> >>} }
    \cup {[url |-> Url("a.com", ""), status |-> 301, redirectUrl |-> NoUrl,
           headers |-> <<[name |-> "Location", value |-> Url("b.com", "")]>>]}

\* getRedirectUrl: protocol + '//' + hostname + path, each of the redirect
\* if it has one and of the current URL otherwise; the result names no port
getRedirectUrl(currentUrl, redirectUri) ==
  [protocol |-> IF redirectUri.protocol # "" THEN redirectUri.protocol
                                            ELSE currentUrl.protocol,
   hostname |-> IF redirectUri.hostname # "" THEN redirectUri.hostname
                                            ELSE currentUrl.hostname,
   port |-> "",
   path |-> redirectUri.path]

\* (resource.headers || []).find(header => header.name && lower(name) === 'location')
locationHeader(resource) ==
  IF \E k \in 1..Len(resource.headers) :
       /\ resource.headers[k].name # ""
       /\ toLowerCase(resource.headers[k].name) = "location"
  THEN resource.headers[CHOOSE k \in 1..Len(resource.headers) :
         /\ resource.headers[k].name # ""
         /\ toLowerCase(resource.headers[k].name) = "location"
         /\ \A j \in 1..(k - 1) : toLowerCase(resource.headers[j].name) # "location"]
  ELSE NoHeader

extractRedirectUrl(resource) ==
  LET redirectUrl ==
        IF resource.redirectUrl # NoUrl THEN resource.redirectUrl
        ELSE locationHeader(resource).value
  IN IF redirectUrl # NoUrl THEN getRedirectUrl(resource.url, redirectUrl) ELSE NoUrl

(***************************************************************************)
(* Proxy indicators and proxy errors.                                      *)
(***************************************************************************)
RedirectIndicator == [type |-> "redirect", url |-> "b.com", code |-> 0, level |-> "high"]

ResponseCodeIndicator == [type |-> "responseCode", url |-> "", code |-> 403, level |-> ""]

\* createProxyError
createProxyError(proxyIndicator) ==
  [proxyIndicator |-> proxyIndicator.type,
   proxyLevel |-> IF proxyIndicator.level # "" THEN proxyIndicator.level ELSE "medium"]

\* getProxyIndicators(type)
getProxyIndicators(type) == SelectSeq(proxyIndicators, LAMBDA item : item.type = type)

\* redirectUrl.match(item.url): the indicator's pattern is a host name
matchUrl(redirectUrl, pattern) == redirectUrl.hostname = pattern

\* any status taken for the indicator's code
matchCode_Any(item, status) == TRUE

\* item.code === resourceError.status
matchCode(item, status) == item.code = status

NoResource == [url |-> NoUrl, status |-> 0, redirectUrl |-> NoUrl, headers |-> <<>>]

\* no event observed yet
NoEvent == [tick |-> 0, kind |-> "none"]

\* the event a handler is called with, kept where events are observed; tick
\* changes with every event
observe(kind, status, resource) ==
  IF observing
  THEN [tick |-> 1 - lastEvent.tick, kind |-> kind, status |-> status, resource |-> resource]
  ELSE lastEvent

\* hasRedirect()
hasRedirect == Len(redirectUrls) > 0

\* any source accepted
followsChain_AnySource(resourceUrl) == TRUE

\* resource.url === this._url || resource.url === the last of this._redirectUrls
followsChain(resourceUrl) ==
  \/ resourceUrl = thisUrl
  \/ /\ Len(redirectUrls) > 0
     /\ resourceUrl = redirectUrls[Len(redirectUrls)]

\* the onResourceReceived handler
onResourceReceived ==
  \E resource \in Resources :
    /\ pc \notin {"new", "failed"}
    /\ IF resource.status \in {302, 301}
       THEN LET redirectUrl == extractRedirectUrl(resource)
                push == redirectUrl # NoUrl /\ followsChain(resource.url)
                matched == SelectSeq(getProxyIndicators("redirect"),
                                     LAMBDA item : matchUrl(redirectUrl, item.url))
            IN /\ push => Len(redirectUrls) < MaxRedirects
               /\ Len(matched) > 0 => Len(proxyErrors) < MaxProxyErrors
               /\ redirectUrls' = IF push THEN Append(redirectUrls, redirectUrl)
                                          ELSE redirectUrls
               /\ proxyErrors' = IF Len(matched) > 0
                                 THEN Append(proxyErrors, createProxyError(matched[1]))
                                 ELSE proxyErrors
               /\ redirectLog' = IF push THEN Append(redirectLog, [url |-> resource.url,
                                                            status |-> resource.status])
                                         ELSE redirectLog
       ELSE UNCHANGED <<redirectUrls, proxyErrors, redirectLog>>
    /\ lastEvent' = observe("resourceReceived", resource.status, resource)
    /\ UNCHANGED <<proxyIndicators, thisUrl, pc, caller, outcome, attempts, gotos, cleared>>
    /\ UNCHANGED <<filterVars, waiterVars, proxyVars>>
    /\ UNCHANGED <<loadVars, engineVars>>
    /\ UNCHANGED <<auditVars, prepareVars, observing, injectVars>>

\* the onResourceError handler
onResourceError ==
  \E status \in {403, 404} :
    /\ pc \notin {"new", "failed"}
    /\ LET matched == SelectSeq(getProxyIndicators("responseCode"),
                                LAMBDA item : matchCode(item, status))
       IN /\ Len(matched) > 0 => Len(proxyErrors) < MaxProxyErrors
          /\ proxyErrors' = IF Len(matched) > 0
                            THEN Append(proxyErrors, createProxyError(matched[1]))
                            ELSE proxyErrors
    /\ lastEvent' = observe("resourceError", status, NoResource)
    /\ UNCHANGED <<proxyIndicators, thisUrl, redirectUrls, pc, caller, outcome, attempts,
                   gotos, redirectLog, cleared>>
    /\ UNCHANGED <<filterVars, waiterVars, proxyVars>>
    /\ UNCHANGED <<loadVars, engineVars>>
    /\ UNCHANGED <<auditVars, prepareVars, observing, injectVars>>

\* the error thrown into the call in flight
afterPageError_Throws(result) == "Page error"

\* phantomError('%s, trace %o', msg, trace): the handler logs and returns
afterPageError(result) == result

\* the onError handler
onError ==
  /\ pc \notin {"new", "failed"}
  /\ outcome' = afterPageError(outcome)
  /\ lastEvent' = observe("pageError", 0, NoResource)
  /\ UNCHANGED <<proxyIndicators, proxyErrors, thisUrl, redirectUrls, pc, caller, attempts,
                 gotos, redirectLog, cleared>>
  /\ UNCHANGED <<filterVars, waiterVars, proxyVars>>
  /\ UNCHANGED <<loadVars, engineVars>>
  /\ UNCHANGED <<auditVars, prepareVars, observing, injectVars>>

(***************************************************************************)
(* goto and the retry loop of _openPage.                                   *)
(***************************************************************************)
GotoUrls == {u \in PageUrls : u.port = ""} \cup {NoUrl}

\* the reset leaving the redirects of the previous navigation
resetNavigation_KeepsRedirects(u) ==
  /\ thisUrl' = u
  /\ proxyErrors' = <<>>
  /\ cleared' = 0
  /\ UNCHANGED <<redirectUrls, redirectLog>>

\* this._url = url; this._proxyErrors = []; this._redirectUrls = []
resetNavigation(u) ==
  /\ thisUrl' = u
  /\ proxyErrors' = <<>>
  /\ redirectUrls' = <<>>
  /\ redirectLog' = <<>>
  /\ cleared' = Len(redirectUrls)

\* no url refused
missingUrl_Never(u) == FALSE

\* !url
missingUrl(u) == u = NoUrl

\* goto(url) up to the page.open call of _openPage
goto ==
  \E u \in GotoUrls :
    /\ pc = "idle"
    /\ gotos < MaxGotos
    /\ gotos' = gotos + 1
    /\ gotoArg' = u
    /\ injected' = FALSE
    /\ IF missingUrl(u)
       THEN /\ outcome' = "Missing url parameter"
            /\ UNCHANGED <<thisUrl, proxyErrors, redirectUrls, redirectLog, cleared, pc,
                           attempts, errorUrl>>
       ELSE /\ resetNavigation(u)
            /\ errorUrl' = NoUrl
            /\ outcome' = "pending"
            /\ pc' = "open"
            /\ attempts' = <<engineProxy>>
    /\ UNCHANGED <<proxyIndicators, caller>>
    /\ UNCHANGED <<filterVars, waiterVars, proxyVars>>
    /\ UNCHANGED <<loadVars, engineVars>>
    /\ UNCHANGED <<lastOpen, returned, prepareVars, eventVars, browserEnvInjected, bundles>>

\* any list accepted
hasNoErrors_Always(errors) == TRUE

\* this.getProxyErrors().length === 0
hasNoErrors(errors) == Len(errors) = 0

\* the first element taken
pop_First(errors) == [value |-> errors[1], list |-> SubSeq(errors, 2, Len(errors))]

\* this.getProxyErrors().pop(): the last element, taken off the list
pop(errors) ==
  [value |-> errors[Len(errors)], list |-> SubSeq(errors, 1, Len(errors) - 1)]

\* the files injected whatever the checkpoint said
injectFiles_Regardless(passed) == TRUE

\* await this._injectFiles(this._getVendors()), reached when _validateProxy resolved
injectFiles(passed) == passed

\* _validateProxy, then _injectFiles: what goto does once _navigateTo resolved
validateProxy ==
  /\ IF hasNoErrors(proxyErrors)
     THEN outcome' = "ok" /\ UNCHANGED proxyErrors
     ELSE /\ outcome' = pop(proxyErrors).value.proxyIndicator
          /\ proxyErrors' = pop(proxyErrors).list
  /\ injected' = injectFiles(hasNoErrors(proxyErrors))

\* the callback of page.open in _openPage
openCallback ==
  \E status \in {"success", "fail"} :
    /\ pc = "open"
    /\ lastOpen' = status
    /\ IF status = "success"
       THEN /\ validateProxy
            /\ pc' = "idle"
            /\ UNCHANGED <<proxy, evictions, rotation, engineProxy, pendingProxy, caller>>
            /\ UNCHANGED <<returned, errorUrl>>
       ELSE rotateProxy("goto") /\ UNCHANGED injected
    /\ UNCHANGED <<proxyRotator, proxyCurrent, configured, setProxyCalls>>
    /\ UNCHANGED <<proxyIndicators, thisUrl, redirectUrls, attempts, gotos, redirectLog, cleared>>
    /\ UNCHANGED <<filterVars, waiterVars>>
    /\ UNCHANGED <<loadVars, engineVars>>
    /\ UNCHANGED <<gotoArg, prepareVars, eventVars, browserEnvInjected, bundles>>

\* injectBrowserEnv(): the bundle is injected unless _browserEnvInjected says
\* it has been; the method does not write the flag
injectBrowserEnv ==
  /\ pc = "idle"
  /\ page
  /\ IF browserEnvInjected
     THEN UNCHANGED bundles
     ELSE bundles < MaxBundles /\ bundles' = bundles + 1
  /\ UNCHANGED <<injected, browserEnvInjected>>
  /\ UNCHANGED <<filterVars, waiterVars, proxyVars, pageVars, loadVars, engineVars>>
  /\ UNCHANGED <<auditVars, prepareVars, eventVars>>

(***************************************************************************)
(* Navigation waiters (waitForPage, onLoadFinished).  A waiter is known by *)
(* its registration number; navigationActions holds the numbers of the     *)
(* queued ones.                                                            *)
(***************************************************************************)
NoError == ""

NoLoad == [seen |-> FALSE, status |-> "", error |-> NoError, before |-> <<>>,
           called |-> <<>>, registered |-> 0]

NoMainLoad == [seen |-> FALSE, status |-> "", error |-> NoError]

LoadStatuses == {"success", "fail"}

\* waitForPage(timeout): start the timer, queue the callback
waitForPage ==
  /\ Len(pageWaiters) < MaxPageWaiters
  /\ pageWaiters' = Append(pageWaiters, [timer |-> TRUE, promise |-> "pending",
                                         error |-> NoError, calls |-> 0])
  /\ navigationActions' = Append(navigationActions, Len(pageWaiters) + 1)
  /\ UNCHANGED <<loadEvents, lastLoad, mainLoad>>
  /\ UNCHANGED <<filterVars, waiterVars, proxyVars, pageVars, engineVars>>
  /\ UNCHANGED <<auditVars, prepareVars, eventVars, injectVars>>

\* the queue left as it is
timedOutQueue_Untouched(actions) == actions

\* this._navigationActions = [] in the setTimeout callback of waitForPage
timedOutQueue(actions) == <<>>

\* reject(error) on a promise: the first settlement stays
reject(waiter, error) ==
  IF waiter.promise = "pending"
  THEN [waiter EXCEPT !.promise = "rejected", !.error = error]
  ELSE waiter

\* the setTimeout callback of waitForPage: empty the queue, reject the promise
waitForPageTimeout ==
  \E w \in 1..Len(pageWaiters) :
    /\ pageWaiters[w].timer
    /\ navigationActions' = timedOutQueue(navigationActions)
    /\ pageWaiters' = [pageWaiters EXCEPT
                         ![w] = reject([@ EXCEPT !.timer = FALSE], "Page navigation timeout")]
    /\ UNCHANGED <<loadEvents, lastLoad, mainLoad>>
    /\ UNCHANGED <<filterVars, waiterVars, proxyVars, pageVars, engineVars>>
    /\ UNCHANGED <<auditVars, prepareVars, eventVars, injectVars>>

\* the queued callback run with err: clearTimeout, then reject(err) or resolve()
callback(waiter, err) ==
  LET stopped == [waiter EXCEPT !.timer = FALSE, !.calls = @ + 1] IN
  IF err # NoError THEN reject(stopped, err)
  ELSE IF stopped.promise = "pending" THEN [stopped EXCEPT !.promise = "resolved"]
  ELSE stopped

\* only the head of the queue taken
spliceAll_FirstOnly(actions) ==
  IF Len(actions) = 0 THEN [removed |-> <<>>, actions |-> <<>>]
  ELSE [removed |-> <<Head(actions)>>, actions |-> Tail(actions)]

\* this._navigationActions.splice(0): every element removed and returned
spliceAll(actions) == [removed |-> actions, actions |-> <<>>]

\* status === 'success' ? null : new Error('Page is not loaded')
loadError(status) == IF status = "success" THEN NoError ELSE "Page is not loaded"

\* the onLoadFinished handler of src/unnamed/part_001
onLoadFinished ==
  \E status \in LoadStatuses :
    /\ page /\ engineProcess = "alive"
    /\ loadEvents < MaxLoadEvents
    /\ LET taken == spliceAll(navigationActions) IN
       /\ navigationActions' = taken.actions
       /\ pageWaiters' = [w \in 1..Len(pageWaiters) |->
                            IF Occurrences(taken.removed, w) > 0
                            THEN callback(pageWaiters[w], loadError(status))
                            ELSE pageWaiters[w]]
       /\ lastLoad' = [seen |-> TRUE, status |-> status, error |-> loadError(status),
                       before |-> navigationActions, called |-> taken.removed,
                       registered |-> Len(pageWaiters)]
    /\ loadEvents' = loadEvents + 1
    /\ UNCHANGED mainLoad
    /\ UNCHANGED <<filterVars, waiterVars, proxyVars, pageVars, engineVars>>
    /\ UNCHANGED <<auditVars, prepareVars, eventVars, injectVars>>

\* args.error of the onLoadFinished handler of lib/PhantomEnvironment.js
mainLoadError(status) == IF status = "success" THEN "Page is not loaded" ELSE NoError

\* the onLoadFinished handler of lib/PhantomEnvironment.js, up to the call of
\* evaluateCallbacks('navigation', null, args)
onLoadFinishedMain ==
  \E status \in LoadStatuses :
    /\ page /\ engineProcess = "alive"
    /\ mainLoad' = [seen |-> TRUE, status |-> status, error |-> mainLoadError(status)]
    /\ UNCHANGED <<navigationActions, pageWaiters, loadEvents, lastLoad>>
    /\ UNCHANGED <<filterVars, waiterVars, proxyVars, pageVars, engineVars>>
    /\ UNCHANGED <<auditVars, prepareVars, eventVars, injectVars>>

(***************************************************************************)
(* tearDown and _handleExit.  A tearDown call is known by its number;      *)
(* exitHandlers holds the numbers of the calls whose resolver is queued.   *)
(***************************************************************************)
NoExit == [seen |-> FALSE, code |-> 0, signal |-> "", before |-> <<>>, called |-> <<>>]

ExitCodes == {0, 1}

Signals == {"", "SIGKILL"}

\* the early return never taken
noProcess_Never(instance) == FALSE

\* !phantomJs || !phantomJs.process: the instance keeps its process object
noProcess(instance) == ~instance

\* a promise never resolved
resolve_Never(td, how) == td

\* resolve() of the tearDown promise; by records the first call
resolve(td, how) ==
  [td EXCEPT !.resolved = @ + 1, !.by = IF @ = "" THEN how ELSE @]

\* a resolver leaving the grace timer armed
resolver_KeepsTimer(td) == resolve(td, "exit")

\* resolver(): clearTimeout(timeout); resolve()
resolver(td) == resolve([td EXCEPT !.timer = FALSE], "exit")

\* this._exitHandlers.indexOf(resolver): 1-based, 0 for -1
indexOf(list, x) ==
  IF \E k \in 1..Len(list) : list[k] = x
  THEN CHOOSE k \in 1..Len(list) : list[k] = x /\ \A j \in 1..(k - 1) : list[j] # x
  ELSE 0

\* tearDown()
tearDown ==
  /\ Len(tearDowns) < MaxTearDowns
  /\ IF noProcess(phantomJS)
     THEN /\ tearDowns' = Append(tearDowns,
                                 [timer |-> FALSE, resolved |-> 1, by |-> "immediately",
                                  live |-> FALSE, killed |-> FALSE, exitedAtKill |-> FALSE])
          /\ UNCHANGED <<phantomJS, page, exitHandlers, exitRequests, pageCloses>>
     ELSE /\ page' = FALSE
          /\ pageCloses' = IF page THEN pageCloses + 1 ELSE pageCloses
          /\ exitRequests' = exitRequests + 1
          /\ tearDowns' = Append(tearDowns,
                                 [timer |-> TRUE, resolved |-> 0, by |-> "",
                                  live |-> engineProcess = "alive", killed |-> FALSE,
                                  exitedAtKill |-> FALSE])
          /\ exitHandlers' = Append(exitHandlers, Len(tearDowns) + 1)
          /\ phantomJS' = FALSE
  /\ UNCHANGED <<engineProcess, lastExit>>
  /\ UNCHANGED <<filterVars, waiterVars, proxyVars, pageVars, loadVars>>
  /\ UNCHANGED <<auditVars, prepareVars, eventVars, injectVars>>

\* the resolver left in the list
withoutResolver_Kept(handlers, t) == handlers

\* i = this._exitHandlers.indexOf(resolver); if (i !== -1) splice(i, 1)
withoutResolver(handlers, t) ==
  LET i == indexOf(handlers, t) IN IF i # 0 THEN splice(handlers, i) ELSE handlers

\* the setTimeout callback of tearDown, 5 seconds after the call
graceTimeout ==
  \E t \in 1..Len(tearDowns) :
    /\ tearDowns[t].timer
    /\ exitHandlers' = withoutResolver(exitHandlers, t)
    /\ tearDowns' = [tearDowns EXCEPT
                       ![t] = resolve([@ EXCEPT !.timer = FALSE, !.killed = TRUE,
                                          !.exitedAtKill = (engineProcess = "exited")],
                                      "timer")]
    /\ UNCHANGED <<phantomJS, page, engineProcess, exitRequests, pageCloses, lastExit>>
    /\ UNCHANGED <<filterVars, waiterVars, proxyVars, pageVars, loadVars>>
    /\ UNCHANGED <<auditVars, prepareVars, eventVars, injectVars>>

\* the list left as it is
afterExit_KeepsHandlers(handlers) == handlers

\* this._exitHandlers = []
afterExit(handlers) == <<>>

\* _handleExit(code, signal), the onExit callback of the engine process: the
\* error it builds for a non-zero code is dropped
handleExit ==
  \E code \in ExitCodes, signal \in Signals :
    /\ engineProcess = "alive"
    /\ engineProcess' = "exited"
    /\ tearDowns' = [t \in 1..Len(tearDowns) |->
                       IF Occurrences(exitHandlers, t) > 0 THEN resolver(tearDowns[t])
                       ELSE tearDowns[t]]
    /\ exitHandlers' = afterExit(exitHandlers)
    /\ lastExit' = [seen |-> TRUE, code |-> code, signal |-> signal,
                    before |-> exitHandlers, called |-> exitHandlers]
    /\ UNCHANGED <<phantomJS, page, exitRequests, pageCloses>>
    /\ UNCHANGED <<filterVars, waiterVars, proxyVars, pageVars, loadVars>>
    /\ UNCHANGED <<auditVars, prepareVars, eventVars, injectVars>>

InitProxy ==
  /\ proxyCurrent = NoProxy
  /\ engineProxy = NoProxy
  /\ pendingProxy = NoProxy
  /\ rotation = NoRotation
  /\ configured = Len(proxy.items)
  /\ evictions = 0
  /\ setProxyCalls = 0

InitAudit ==
  /\ gotoArg = NoUrl
  /\ lastOpen = "none"
  /\ errorUrl = NoUrl
  /\ returned = NoProxy
  /\ commands = <<>>
  /\ applied = 0
  /\ stage = 0
  /\ lastEvent = NoEvent
  /\ observing = FALSE
  /\ injected = FALSE
  /\ browserEnvInjected = FALSE
  /\ bundles = 0

InitPage ==
  /\ InitAudit
  /\ proxyErrors = <<>>
  /\ redirectUrls = <<>>
  /\ pc = "new"
  /\ caller = "prepare"
  /\ outcome = "none"
  /\ attempts = <<>>
  /\ gotos = 0
  /\ redirectLog = <<>>
  /\ cleared = 0

\* the constructor: no engine, no page, no exit handler
InitEngine ==
  /\ phantomJS = FALSE
  /\ page = FALSE
  /\ engineProcess = "none"
  /\ exitHandlers = <<>>
  /\ tearDowns = <<>>
  /\ exitRequests = 0
  /\ pageCloses = 0
  /\ lastExit = NoExit

InitLoad ==
  /\ navigationActions = <<>>
  /\ pageWaiters = <<>>
  /\ loadEvents = 0
  /\ lastLoad = NoLoad
  /\ mainLoad = NoMainLoad

NoSession ==
  /\ thisUrl = Url("a.com", "")
  /\ proxy = NullConfig
  /\ proxyRotator = FALSE
  /\ proxyIndicators = <<>>
  /\ InitProxy
  /\ InitPage
  /\ InitEngine

InitWaiters ==
  /\ requestingActions = <<>>
  /\ waiters = <<>>
  /\ requestEvents = 0
  /\ lastNavigation = NoNavigation
  /\ InitLoad

InitFilter ==
  /\ allowedUrls \in ResourceLists
  /\ blockedUrls \in ResourceLists
  /\ request = NoRequest
  /\ InitWaiters
  /\ NoSession

NextFilter == onResourceRequested

SpecFilter == InitFilter /\ [][NextFilter]_vars

InitQueue ==
  /\ allowedUrls = NullList
  /\ blockedUrls = NullList
  /\ request = NoRequest
  /\ InitWaiters
  /\ NoSession

NextQueue ==
  \/ waitForQuery
  \/ waitForQueryTimeout
  \/ onNavigationRequested

SpecQueue == InitQueue /\ [][NextQueue]_vars

InitRotation ==
  /\ allowedUrls = NullList
  /\ blockedUrls = NullList
  /\ request = NoRequest
  /\ InitWaiters
  /\ thisUrl = Url("a.com", "")
  /\ proxy \in ProxyConfigs
  /\ proxyRotator \in BOOLEAN
  /\ proxyIndicators = <<>>
  /\ InitProxy
  /\ InitPage
  /\ InitEngine

NextRotation ==
  \/ prepare
  \/ setProxyCallback
  \/ setProxy
  \/ goto
  \/ openCallback

SpecRotation == InitRotation /\ [][NextRotation]_vars

InitRedirect ==
  /\ allowedUrls = NullList
  /\ blockedUrls = NullList
  /\ request = NoRequest
  /\ InitWaiters
  /\ thisUrl = Url("a.com", "")
  /\ proxy = [kind |-> "list", items |-> <<Proxy("h1", 80, "u1")>>]
  /\ proxyRotator = FALSE
  /\ proxyIndicators \in {<<>>, <<RedirectIndicator>>}
  /\ InitProxy
  /\ InitPage
  /\ InitEngine

NextRedirect ==
  \/ prepare
  \/ setProxyCallback
  \/ goto
  \/ openCallback
  \/ onResourceReceived

SpecRedirect == InitRedirect /\ [][NextRedirect]_vars

\* a prepared session: prepare() has run without a proxy
Prepared ==
  /\ thisUrl = Url("a.com", "")
  /\ proxy = NullConfig
  /\ proxyRotator = FALSE
  /\ proxyIndicators = <<>>
  /\ InitProxy
  /\ InitAudit
  /\ proxyErrors = <<>>
  /\ redirectUrls = <<>>
  /\ pc = "idle"
  /\ caller = "prepare"
  /\ outcome = "none"
  /\ attempts = <<>>
  /\ gotos = 0
  /\ redirectLog = <<>>
  /\ cleared = 0
  /\ phantomJS = TRUE
  /\ page = TRUE
  /\ engineProcess = "alive"
  /\ exitHandlers = <<>>
  /\ tearDowns = <<>>
  /\ exitRequests = 0
  /\ pageCloses = 0
  /\ lastExit = NoExit

InitNavigation ==
  /\ allowedUrls = NullList
  /\ blockedUrls = NullList
  /\ request = NoRequest
  /\ InitWaiters
  /\ Prepared

NextNavigation ==
  \/ waitForPage
  \/ waitForPageTimeout
  \/ onLoadFinished
  \/ onLoadFinishedMain

SpecNavigation == InitNavigation /\ [][NextNavigation]_vars

\* both kinds of waiters and both kinds of events
NextWaiters ==
  \/ waitForPage
  \/ waitForPageTimeout
  \/ onLoadFinished
  \/ waitForQuery
  \/ waitForQueryTimeout
  \/ onNavigationRequested

SpecWaiters == InitNavigation /\ [][NextWaiters]_vars

InitTearDown ==
  /\ allowedUrls = NullList
  /\ blockedUrls = NullList
  /\ request = NoRequest
  /\ InitWaiters
  /\ NoSession

NextTearDown ==
  \/ prepare
  \/ tearDown
  \/ graceTimeout
  \/ handleExit
  \/ waitForPage
  \/ waitForPageTimeout

SpecTearDown == InitTearDown /\ [][NextTearDown]_vars

\* the grace timer of a tearDown fires unless the resolver cleared it
FairTearDown == SpecTearDown /\ WF_vars(graceTimeout)

\* the engine exiting under a session that waits for a page
NextCrash ==
  \/ prepare
  \/ handleExit
  \/ waitForPage
  \/ waitForPageTimeout
  \/ onLoadFinished
  \/ goto
  \/ openCallback

SpecCrash == InitTearDown /\ [][NextCrash]_vars

(***************************************************************************)
(* prepare() stage by stage.  commands is what has been sent to the engine,  *)
(* in the order sent; the engine answers the commands in that order, and   *)
(* applied counts the answers.  A stage that waits for its callback lets   *)
(* the next one start only when every command has been answered.           *)
(***************************************************************************)
prepareFrame ==
  UNCHANGED <<filterVars, waiterVars, proxyVars, pageVars, loadVars, engineVars, auditVars,
              eventVars, injectVars>>

answered == applied = Len(commands)

\* the page.set and page.onResourceRequested calls of _handlePhantomEvents
HandlerBindings ==
  <<"onError", "onConsoleMessage", "onNavigationRequested", "onLoadFinished",
    "onResourceError", "onResourceRequested", "onResourceReceived">>

\* phantom.create(...args)
createInstance ==
  /\ stage = 0
  /\ commands' = Append(commands, "create")
  /\ stage' = 1
  /\ UNCHANGED applied
  /\ prepareFrame

\* this._phantomJS.createPage(callback), after the instance callback
createPage ==
  /\ stage = 1
  /\ answered
  /\ commands' = Append(commands, "createPage")
  /\ stage' = 2
  /\ UNCHANGED applied
  /\ prepareFrame

\* page.set('viewportSize', viewport, () => resolve())
setViewport ==
  /\ stage = 2
  /\ answered
  /\ commands' = Append(commands, "viewportSize")
  /\ stage' = 3
  /\ UNCHANGED applied
  /\ prepareFrame

\* page.set('settings.userAgent', userAgent, () => resolve())
setUserAgent ==
  /\ stage = 3
  /\ answered
  /\ commands' = Append(commands, "userAgent")
  /\ stage' = 4
  /\ UNCHANGED applied
  /\ prepareFrame

\* page.set('settings.resourceTimeout', timeout, () => resolve())
setTimeout ==
  /\ stage = 4
  /\ answered
  /\ commands' = Append(commands, "resourceTimeout")
  /\ stage' = 5
  /\ UNCHANGED applied
  /\ prepareFrame

\* _handlePhantomEvents: sends every binding and returns; it passes no
\* callback to page.set and returns no promise
handlePhantomEvents ==
  /\ stage = 5
  /\ answered
  /\ commands' = commands \o HandlerBindings
  /\ stage' = 6
  /\ UNCHANGED applied
  /\ prepareFrame

\* await this._rotateProxy() in prepare: nothing is sent without a proxy
prepareRotateProxy ==
  /\ stage = 6
  /\ commands' = IF proxy.kind = "null" THEN commands ELSE Append(commands, "setProxy")
  /\ stage' = 7
  /\ UNCHANGED applied
  /\ prepareFrame

\* if (this._url) await this.goto(this._url), after _applyProxy has resolved
prepareGoto ==
  /\ stage = 7
  /\ proxy.kind = "null" \/ answered
  /\ commands' = IF thisUrl = NoUrl THEN commands ELSE Append(commands, "open")
  /\ stage' = 8
  /\ UNCHANGED applied
  /\ prepareFrame

\* the engine answers the oldest command it has not answered
engineCallback ==
  /\ applied < Len(commands)
  /\ applied' = applied + 1
  /\ UNCHANGED <<commands, stage>>
  /\ prepareFrame

\* a goto whose page.open may fail, with or without proxies to rotate to
AttemptConfigs ==
  {NullConfig,
   [kind |-> "single", items |-> <<Proxy("h1", 80, "u1")>>],
   [kind |-> "list", items |-> <<Proxy("h1", 80, "u1"), Proxy("h1", 81, "u1")>>]}

InitAttempt ==
  /\ allowedUrls = NullList
  /\ blockedUrls = NullList
  /\ request = NoRequest
  /\ InitWaiters
  /\ thisUrl = Url("a.com", "")
  /\ proxy \in AttemptConfigs
  /\ proxyRotator = FALSE
  /\ proxyIndicators = <<ResponseCodeIndicator>>
  /\ InitProxy
  /\ InitPage
  /\ InitEngine

NextAttempt ==
  \/ prepare
  \/ setProxyCallback
  \/ goto
  \/ openCallback
  \/ onResourceError

SpecAttempt == InitAttempt /\ [][NextAttempt]_vars

\* retries under responses that record redirects and proxy errors
InitRetry ==
  /\ allowedUrls = NullList
  /\ blockedUrls = NullList
  /\ request = NoRequest
  /\ InitWaiters
  /\ thisUrl = Url("a.com", "")
  /\ proxy \in AttemptConfigs \ {NullConfig}
  /\ proxyRotator = FALSE
  /\ proxyIndicators = <<RedirectIndicator, ResponseCodeIndicator>>
  /\ InitProxy
  /\ InitPage
  /\ InitEngine

NextRetry ==
  \/ prepare
  \/ setProxyCallback
  \/ goto
  \/ openCallback
  \/ onResourceReceived

SpecRetry == InitRetry /\ [][NextRetry]_vars

\* the proxy errors the handlers may have recorded while a page was loading
RecordedErrors ==
  SeqsUpTo({createProxyError(RedirectIndicator), createProxyError(ResponseCodeIndicator)},
           MaxRecorded)

\* a prepared session, with one proxy or none, whose first goto waits for the
\* callback of page.open while the handlers have recorded what came in
InitValidate ==
  /\ allowedUrls = NullList
  /\ blockedUrls = NullList
  /\ request = NoRequest
  /\ InitWaiters
  /\ thisUrl = Url("a.com", "")
  /\ proxy \in {NullConfig, [kind |-> "single", items |-> <<Proxy("h1", 80, "u1")>>]}
  /\ proxyRotator = FALSE
  /\ proxyIndicators = <<RedirectIndicator, ResponseCodeIndicator>>
  /\ proxyCurrent = IF proxy.kind = "null" THEN NoProxy ELSE proxy.items[1]
  /\ engineProxy = proxyCurrent
  /\ pendingProxy = proxyCurrent
  /\ returned = proxyCurrent
  /\ rotation = NoRotation
  /\ configured = Len(proxy.items)
  /\ evictions = 0
  /\ setProxyCalls = 0
  /\ gotoArg = Url("a.com", "")
  /\ lastOpen = "none"
  /\ errorUrl = NoUrl
  /\ commands = <<>>
  /\ applied = 0
  /\ stage = 0
  /\ lastEvent = NoEvent
  /\ observing = FALSE
  /\ injected = FALSE
  /\ browserEnvInjected = FALSE
  /\ bundles = 0
  /\ proxyErrors \in RecordedErrors
  /\ redirectUrls \in {<<>>, <<Url("b.com", "")>>}
  /\ pc = "open"
  /\ caller = "prepare"
  /\ outcome = "pending"
  /\ attempts = <<engineProxy>>
  /\ gotos = 1
  /\ redirectLog = <<>>
  /\ cleared = 0
  /\ phantomJS = TRUE
  /\ page = TRUE
  /\ engineProcess = "alive"
  /\ exitHandlers = <<>>
  /\ tearDowns = <<>>
  /\ exitRequests = 0
  /\ pageCloses = 0
  /\ lastExit = NoExit

NextValidate ==
  \/ goto
  \/ openCallback
  \/ setProxyCallback
  \/ onResourceError

SpecValidate == InitValidate /\ [][NextValidate]_vars

\* an environment as constructed, with or without a url and a proxy
InitPrepare ==
  /\ allowedUrls = NullList
  /\ blockedUrls = NullList
  /\ request = NoRequest
  /\ InitWaiters
  /\ thisUrl \in {NoUrl, Url("a.com", ""), Url("b.com", "")}
  /\ proxy \in AttemptConfigs
  /\ proxyRotator = FALSE
  /\ proxyIndicators = <<>>
  /\ InitProxy
  /\ InitPage
  /\ InitEngine

NextPrepare ==
  \/ createInstance
  \/ createPage
  \/ setViewport
  \/ setUserAgent
  \/ setTimeout
  \/ handlePhantomEvents
  \/ prepareRotateProxy
  \/ prepareGoto
  \/ engineCallback

SpecPrepare == InitPrepare /\ [][NextPrepare]_vars

\* a prepared session without a proxy whose first goto waits for the callback
\* of page.open, the events the handlers get being observed
InitEvents ==
  /\ allowedUrls = NullList
  /\ blockedUrls = NullList
  /\ request = NoRequest
  /\ InitWaiters
  /\ thisUrl = Url("a.com", "")
  /\ proxy = NullConfig
  /\ proxyRotator = FALSE
  /\ proxyIndicators = <<RedirectIndicator, ResponseCodeIndicator>>
  /\ proxyCurrent = IF proxy.kind = "null" THEN NoProxy ELSE proxy.items[1]
  /\ engineProxy = proxyCurrent
  /\ pendingProxy = proxyCurrent
  /\ returned = proxyCurrent
  /\ rotation = NoRotation
  /\ configured = Len(proxy.items)
  /\ evictions = 0
  /\ setProxyCalls = 0
  /\ gotoArg = Url("a.com", "")
  /\ lastOpen = "none"
  /\ errorUrl = NoUrl
  /\ commands = <<>>
  /\ applied = 0
  /\ stage = 0
  /\ lastEvent = NoEvent
  /\ observing = TRUE
  /\ injected = FALSE
  /\ browserEnvInjected = FALSE
  /\ bundles = 0
  /\ proxyErrors = <<>>
  /\ redirectUrls = <<>>
  /\ pc = "open"
  /\ caller = "prepare"
  /\ outcome = "pending"
  /\ attempts = <<engineProxy>>
  /\ gotos = 1
  /\ redirectLog = <<>>
  /\ cleared = 0
  /\ phantomJS = TRUE
  /\ page = TRUE
  /\ engineProcess = "alive"
  /\ exitHandlers = <<>>
  /\ tearDowns = <<>>
  /\ exitRequests = 0
  /\ pageCloses = 0
  /\ lastExit = NoExit

NextEvents ==
  \/ onResourceReceived
  \/ onResourceError
  \/ onError

SpecEvents == InitEvents /\ [][NextEvents]_vars

\* sessions that go to pages and inject the browser bundle
NextInject ==
  \/ prepare
  \/ setProxyCallback
  \/ goto
  \/ openCallback
  \/ onResourceError
  \/ injectBrowserEnv

SpecInject == InitAttempt /\ [][NextInject]_vars

(***************************************************************************)
(* Properties                                                              *)
(***************************************************************************)
Range(s) == {s[k] : k \in 1..Len(s)}

MatchingWaiters(queue, url) ==
  SelectSeq(queue, LAMBDA w : Match(url, waiters[w].pattern))

\* C5: the resource-requested handler aborts a request iff a non-empty
\* allow-list matches the URL nowhere, or there is no (or an empty) allow-list
\* and a non-empty deny-list matches the URL; with a non-empty allow-list the
\* deny-list plays no part.
C5_AbortIffNotAllowedOrBlocked ==
  request.seen =>
    /\ request.aborted <=>
         \/ /\ Len(allowedUrls.items) > 0
            /\ \A k \in 1..Len(allowedUrls.items) : ~Match(request.url, allowedUrls.items[k])
         \/ /\ Len(allowedUrls.items) = 0
            /\ Len(blockedUrls.items) > 0
            /\ \E k \in 1..Len(blockedUrls.items) : Match(request.url, blockedUrls.items[k])
    /\ Len(allowedUrls.items) > 0 =>
         (request.aborted <=> ~SomeMatch(request.url, allowedUrls.items))

C5_Witness ==
  /\ request.seen
  /\ ~request.aborted
  /\ Len(allowedUrls.items) > 0
  /\ SomeMatch(request.url, allowedUrls.items)
  /\ SomeMatch(request.url, blockedUrls.items)

\* C8: a request-pattern waiter is one-shot: its callback is run at most
\* once over any sequence of navigation-requested events.
C8_CallbackAtMostOnce ==
  \A w \in 1..Len(waiters) : waiters[w].calls <= 1

C10_RemovedAreTheResolved ==
  [][requestEvents' # requestEvents =>
       requestingActions' =
         SelectSeq(requestingActions, LAMBDA w : w \notin Range(lastNavigation'.called))]_vars

\* C1: with a proxy list of N entries configured and no rotation function,
\* one goto issues at most N page.open calls, and while it is in flight the
\* engine's next answer always finds a step to take, so it ends.
C1_AtMostNAttempts ==
  (proxy.kind = "list" /\ ~proxyRotator /\ setProxyCalls = 0) =>
    /\ Len(attempts) <= configured
    /\ pc \in {"open", "setProxy"} => ENABLED (openCallback \/ setProxyCallback)

C1_Witness ==
  /\ proxy.kind = "list" /\ ~proxyRotator /\ setProxyCalls = 0
  /\ configured = 2
  /\ Len(attempts) = 2
  /\ outcome = "No proxy found"

\* C2: within one goto no two page.open calls go through the same host and
\* port, and there are no more calls than configured candidates.
C2_NeverTheSameProxyTwice ==
  (proxy.kind # "null" /\ setProxyCalls = 0) =>
    /\ \A i, j \in 1..Len(attempts) :
         i < j => ~sameHostPort(attempts[i], attempts[j])
    /\ Len(attempts) <= configured

\* C3: a rotation without a rotation function never selects a proxy with the
\* host and port of the proxy it has just evicted.
C3_NeverSelectsTheEvicted ==
  (rotation.n > 0 /\ ~proxyRotator /\ rotation.evicted # NoProxy
     /\ rotation.found # NoProxy) =>
    ~sameHostPort(rotation.found, rotation.evicted)

\* C4: a rotation over a list fails with 'No proxy found' exactly when the
\* list is empty after the eviction or the rotation function returned nothing;
\* the rotation making the N-th eviction of a list of N fails; a failed
\* rotation hands no proxy to the engine and leaves the current proxy.
C4_FailsIffNoCandidate ==
  [][rotation'.n # rotation.n =>
       /\ (outcome' = "No proxy found") <=>
            \/ Len(rotation'.remaining) = 0
            \/ proxyRotator /\ rotation'.found = NoProxy
       /\ (setProxyCalls = 0 /\ evictions' # evictions /\ evictions' = configured) =>
            outcome' = "No proxy found"
       /\ outcome' = "No proxy found" =>
            /\ engineProxy' = engineProxy
            /\ proxyCurrent' = proxyCurrent
            /\ pc' # "setProxy"]_vars

C4_Witness ==
  /\ rotation.n > 0
  /\ outcome = "No proxy found"
  /\ setProxyCalls = 0
  /\ configured = 2
  /\ evictions = 2
  /\ \A i, j \in 1..Len(attempts) : i < j => ~sameHostPort(attempts[i], attempts[j])

\* C6: every entry of the redirect chain was added by a 301/302 response whose
\* source was the requested URL or an earlier entry, in fact the entry before
\* it; a response with any other source adds nothing.
C6_ChainFollowsTheRequestedUrl ==
  /\ Len(redirectLog) = Len(redirectUrls)
  /\ \A i \in 1..Len(redirectUrls) :
       /\ redirectLog[i].status \in {301, 302}
       /\ \/ redirectLog[i].url = thisUrl
          \/ \E j \in 1..(i - 1) : redirectLog[i].url = redirectUrls[j]
       /\ \/ redirectLog[i].url = thisUrl
          \/ i > 1 /\ redirectLog[i].url = redirectUrls[i - 1]

C6_Witness ==
  /\ gotos > 0
  /\ Len(redirectUrls) = 2
  /\ redirectLog[1].url = thisUrl
  /\ redirectLog[2].url = redirectUrls[1]
  /\ redirectLog[2].url # thisUrl

\* C7: between two gotos the redirect chain changes only by an append at its
\* tail, and a goto with a URL empties it, so hasRedirect() is false when the
\* navigation starts whatever the previous goto recorded.
C7_AppendOnlyAndClearedByGoto ==
  [][/\ (redirectUrls' # redirectUrls /\ gotos' = gotos) =>
          /\ Len(redirectUrls') = Len(redirectUrls) + 1
          /\ SubSeq(redirectUrls', 1, Len(redirectUrls)) = redirectUrls
     /\ (gotos' # gotos /\ outcome' # "Missing url parameter") =>
          /\ redirectUrls' = <<>>
          /\ ~hasRedirect'
          /\ pc' = "open"]_vars

C7_Witness ==
  /\ gotos = 2
  /\ cleared > 0
  /\ pc = "open"
  /\ ~hasRedirect

PageTimedOut(w) ==
  /\ pageWaiters[w].timer
  /\ ~pageWaiters'[w].timer
  /\ pageWaiters'[w].calls = pageWaiters[w].calls

QueryTimedOut(w) ==
  /\ waiters[w].timer
  /\ ~waiters'[w].timer
  /\ waiters'[w].calls = waiters[w].calls

Without(queue, w) == SelectSeq(queue, LAMBDA x : x # w)

\* C11: a navigation waiter whose timer fires is rejected with the timeout
\* error and is out of the queue, and a waiter that is not queued is not
\* invoked by any later event.
C11_TimedOutWaiterLeavesTheQueue ==
  [][\A w \in 1..Len(pageWaiters) :
       /\ PageTimedOut(w) =>
            /\ pageWaiters'[w].promise = "rejected"
            /\ pageWaiters'[w].error = "Page navigation timeout"
            /\ w \notin Range(navigationActions')
       /\ w \notin Range(navigationActions) =>
            pageWaiters'[w].calls = pageWaiters[w].calls]_vars

C11_Witness ==
  /\ Len(pageWaiters) = 1
  /\ pageWaiters[1].error = "Page navigation timeout"
  /\ pageWaiters[1].calls = 0
  /\ lastLoad.seen
  /\ lastLoad.registered = 1
  /\ lastLoad.called = <<>>

\* C12: the expiry of one waiter's timer takes that waiter out of its queue
\* and leaves every other queued waiter, of either kind, where it is.
C12_ExpiryRemovesOnlyItsWaiter ==
  [][/\ \A w \in 1..Len(pageWaiters) :
          PageTimedOut(w) =>
            /\ navigationActions' = Without(navigationActions, w)
            /\ requestingActions' = requestingActions
     /\ \A w \in 1..Len(waiters) :
          QueryTimedOut(w) =>
            /\ requestingActions' = Without(requestingActions, w)
            /\ navigationActions' = navigationActions]_vars

\* C13: the error a load-finished event hands on is 'Page is not loaded' iff
\* its status is not 'success'.
C13_FailureIffNotSuccess ==
  /\ lastLoad.seen =>
       (lastLoad.error = "Page is not loaded" <=> lastLoad.status # "success")
  /\ lastLoad.seen /\ lastLoad.status = "success" => lastLoad.error = NoError
  /\ mainLoad.seen =>
       (mainLoad.error = "Page is not loaded" <=> mainLoad.status # "success")
  /\ mainLoad.seen /\ mainLoad.status = "success" => mainLoad.error = NoError

\* C14: a load-finished event runs the callback of every queued navigation
\* waiter once, in registration order, and empties the queue; a waiter
\* registered later starts with no call.
C14_EveryWaiterOnceInOrder ==
  [][/\ loadEvents' # loadEvents =>
          /\ lastLoad'.called = navigationActions
          /\ navigationActions' = <<>>
          /\ \A w \in 1..Len(pageWaiters) :
               pageWaiters'[w].calls =
                 pageWaiters[w].calls + (IF w \in Range(navigationActions) THEN 1 ELSE 0)
     /\ Len(pageWaiters') > Len(pageWaiters) =>
          pageWaiters'[Len(pageWaiters')].calls = 0]_vars

C14_Witness ==
  /\ lastLoad.seen
  /\ lastLoad.called = <<1, 2>>
  /\ navigationActions = <<>>
  /\ pageWaiters[1].calls = 1
  /\ pageWaiters[2].calls = 1

\* C15: a waiter that is no longer in its queue has been settled.
C15_NoWaiterLeavesUnsettled ==
  /\ \A w \in 1..Len(pageWaiters) :
       w \notin Range(navigationActions) => pageWaiters[w].promise # "pending"
  /\ \A w \in 1..Len(waiters) :
       w \notin Range(requestingActions) => waiters[w].promise # "pending"

\* C16: a tearDown call made while _phantomJS holds no instance resolves at
\* once and closes no page, requests no exit and queues no resolver.
C16_TearDownWithoutEngine ==
  [][(Len(tearDowns') > Len(tearDowns) /\ ~phantomJS) =>
       /\ tearDowns'[Len(tearDowns')].resolved = 1
       /\ ~tearDowns'[Len(tearDowns')].timer
       /\ page' = page
       /\ pageCloses' = pageCloses
       /\ exitRequests' = exitRequests
       /\ exitHandlers' = exitHandlers
       /\ phantomJS' = phantomJS]_vars

C16_Witness ==
  /\ Len(tearDowns) = 2
  /\ tearDowns[1].live
  /\ tearDowns[2].by = "immediately"
  /\ exitRequests = 1

\* C17: the promise of a tearDown call is resolved at most once, by the exit
\* notification or by the grace timer when the engine was live, and every
\* tearDown call is eventually resolved.
C17_TearDownResolvesOnce ==
  /\ [](\A t \in 1..Len(tearDowns) :
          /\ tearDowns[t].resolved <= 1
          /\ (tearDowns[t].live /\ tearDowns[t].resolved = 1) =>
               tearDowns[t].by \in {"exit", "timer"}
          /\ tearDowns[t].by = "exit" => lastExit.seen)
  /\ \A t \in 1..MaxTearDowns :
       (Len(tearDowns) >= t) ~> (Len(tearDowns) >= t /\ tearDowns[t].resolved = 1)

C17_Witness ==
  /\ Len(tearDowns) > 0
  /\ tearDowns[1].live
  /\ tearDowns[1].resolved = 1
  /\ tearDowns[1].by = "timer"
  /\ engineProcess = "alive"

C19_ExitRunsEveryHandler ==
  [][(engineProcess = "alive" /\ engineProcess' = "exited") =>
       /\ lastExit'.called = exitHandlers
       /\ lastExit'.code \in ExitCodes
       /\ exitHandlers' = <<>>
       /\ \A t \in 1..Len(tearDowns) :
            tearDowns'[t].resolved =
              tearDowns[t].resolved + (IF t \in Range(exitHandlers) THEN 1 ELSE 0)]_vars

C19_Witness ==
  /\ lastExit.seen
  /\ lastExit.code = 1
  /\ lastExit.called = <<1>>
  /\ exitHandlers = <<>>
  /\ tearDowns[1].resolved = 1

\* C20: an exit with a non-zero code, no tearDown having been called, fails
\* every queued navigation waiter and a goto in flight with the
\* engine-process-exited error.
C20_ExitFailsPendingCallers ==
  [][(engineProcess = "alive" /\ engineProcess' = "exited" /\ lastExit'.code # 0
        /\ Len(tearDowns) = 0) =>
       /\ \A w \in Range(navigationActions) :
            /\ pageWaiters'[w].promise = "rejected"
            /\ pageWaiters'[w].error = "EngineProcessExited"
       /\ pc = "open" => (outcome' = "EngineProcessExited" /\ pc' = "idle")]_vars

\* the callback of page.open has run
OpenAnswered == pc = "open" /\ pc' # "open"

\* C21: a goto without a url fails with the missing-url error and leaves the
\* requested URL, the redirect chain, the proxy errors, the proxy
\* configuration, the current proxy and the engine as they were.
C21_EmptyUrlChangesNothing ==
  [][(gotos' # gotos /\ gotoArg' = NoUrl) =>
       /\ outcome' = "Missing url parameter"
       /\ UNCHANGED <<thisUrl, redirectUrls, proxyErrors, proxy, proxyCurrent, engineProxy,
                      pendingProxy, rotation, pc, attempts>>]_vars

C21_Witness ==
  /\ gotoArg = NoUrl
  /\ outcome = "Missing url parameter"
  /\ gotos = 2
  /\ thisUrl # NoUrl
  /\ Len(redirectUrls) > 0
  /\ Len(proxyErrors) > 1
  /\ proxyCurrent # NoProxy

\* C22: goto reports success only when the page.open callback came with
\* 'success' and the proxy-error list was empty at that moment.
C22_SuccessOnlyThroughTheGate ==
  [][/\ (outcome' = "ok" /\ outcome # "ok") =>
          (OpenAnswered /\ lastOpen' = "success" /\ Len(proxyErrors) = 0)
     /\ (OpenAnswered /\ Len(proxyErrors) > 0) => outcome' # "ok"]_vars

C22_Witness ==
  /\ outcome = "ok"
  /\ lastOpen = "success"
  /\ Len(attempts) = 2
  /\ proxyCurrent # NoProxy

\* C23: a proxy error found after a load that ended with 'success' makes goto
\* rotate the proxy and open the page again; goto fails only if the rotation
\* yields no proxy.
C23_ProxyErrorRotates ==
  [][(OpenAnswered /\ lastOpen' = "success" /\ Len(proxyErrors) > 0 /\ proxy.kind # "null") =>
       \/ pc' = "setProxy"
       \/ outcome' \in {"No proxy found", "Page was not loaded"}]_vars

\* C24: a goto that ends because a load failed ends with 'Page <url> was not
\* loaded', naming the url.
C24_FailsNamingTheUrl ==
  [][(OpenAnswered /\ lastOpen' = "fail" /\ pc' = "idle") =>
       /\ outcome' = "Page was not loaded"
       /\ errorUrl' = thisUrl]_vars

\* C24 (amended): with no proxy configured a failed load ends goto with 'Page
\* <url> was not loaded', naming the url; with a proxy list whose candidates
\* are exhausted it ends goto with 'No proxy found'.
C24_FailsByConfiguration ==
  [][(OpenAnswered /\ lastOpen' = "fail" /\ pc' = "idle") =>
       /\ proxy.kind \in {"null", "list"}
       /\ proxy.kind = "null" =>
            (outcome' = "Page was not loaded" /\ errorUrl' = thisUrl /\ thisUrl = gotoArg)
       /\ proxy.kind = "list" =>
            (outcome' = "No proxy found" /\ Len(proxy'.items) = 0)]_vars

C24_Witness ==
  /\ proxy.kind = "list"
  /\ outcome = "No proxy found"
  /\ lastOpen = "fail"
  /\ Len(attempts) = 2
  /\ pc = "idle"

\* C25: prepare sends 'open' to the engine only when every command of the
\* earlier stages (user agent, timeout, handler bindings, initial proxy) has
\* been carried out and answered.
C25_OpenAfterEverythingApplied ==
  [][(Len(commands') > Len(commands) /\ commands'[Len(commands')] = "open") => answered]_vars

\* C26: a rotation that applies a proxy leaves the proxy-error list empty.
C26_RotationClearsErrors ==
  [][(pc # "setProxy" /\ pc' = "setProxy") => proxyErrors' = <<>>]_vars

\* C27: the attempt that goto starts through a new proxy starts with an empty
\* redirect chain.
C27_RetryStartsWithoutRedirects ==
  [][(pc = "setProxy" /\ caller = "goto" /\ pc' = "open") => redirectUrls' = <<>>]_vars

\* C28: after a successful load _validateProxy succeeds iff the proxy-error
\* list is empty, and otherwise fails with the error recorded last.
C28_LastErrorWins ==
  [][(OpenAnswered /\ lastOpen' = "success") =>
       /\ outcome' = "ok" <=> proxyErrors = <<>>
       /\ proxyErrors # <<>> =>
            outcome' = proxyErrors[Len(proxyErrors)].proxyIndicator]_vars

C28_Witness ==
  /\ lastOpen = "success"
  /\ outcome = "redirect"
  /\ Len(proxyErrors) = 2
  /\ proxyErrors[1].proxyIndicator = "responseCode"
  /\ proxyErrors[2].proxyIndicator = "responseCode"

NeverGrows ==
  \/ proxy' = proxy
  \/ /\ proxy'.kind = proxy.kind
     /\ \E i \in 1..Len(proxy.items) :
          proxy'.items = [k \in 1..(Len(proxy.items) - 1) |->
                            IF k < i THEN proxy.items[k] ELSE proxy.items[k + 1]]

\* C30: no step of a session, setProxy included, lets the candidate list
\* grow or puts into it a proxy that is not in it (an evicted one is not).
C30_NoProxyComesBack ==
  [][/\ Len(proxy'.items) <= Len(proxy.items)
     /\ Range(proxy'.items) \subseteq Range(proxy.items)]_vars

\* C30 (amended): no rotation and no goto puts a proxy into the candidate
\* list: over those steps the list stays as it is or loses one entry.
C30_OnlySetProxyAdds == [][setProxyCalls' = setProxyCalls => NeverGrows]_vars

C30_Witness ==
  /\ setProxyCalls = 0
  /\ configured = 2
  /\ evictions = 2
  /\ Len(proxy.items) = 0
  /\ gotos = 2

\* an engine event has been handed to its handler
EventStep == lastEvent'.tick # lastEvent.tick

\* some configured indicator of the type satisfies the test
SomeIndicator(type, Test(_)) ==
  \E k \in 1..Len(proxyIndicators) :
    proxyIndicators[k].type = type /\ Test(proxyIndicators[k])

\* the list with one more error, of the kind
OneMore(kind) ==
  /\ Len(proxyErrors') = Len(proxyErrors) + 1
  /\ SubSeq(proxyErrors', 1, Len(proxyErrors)) = proxyErrors
  /\ proxyErrors'[Len(proxyErrors')].proxyIndicator = kind

\* C31: a resource-error event appends one proxy error iff its status is the
\* code of a response-code indicator, a 301/302 response appends one iff its
\* redirect target matches a redirect indicator, joined to the chain or not,
\* and any other event leaves the proxy-error list as it is.
C31_ErrorsGrowOnlyOnAMatch ==
  [][EventStep =>
       LET event == lastEvent'
           target == extractRedirectUrl(event.resource)
       IN /\ event.kind = "resourceError" =>
               IF SomeIndicator("responseCode", LAMBDA item : item.code = event.status)
               THEN OneMore("responseCode")
               ELSE proxyErrors' = proxyErrors
          /\ event.kind = "resourceReceived" =>
               IF /\ event.status \in {301, 302}
                  /\ SomeIndicator("redirect", LAMBDA item : target.hostname = item.url)
               THEN OneMore("redirect")
               ELSE proxyErrors' = proxyErrors
          /\ event.kind \notin {"resourceError", "resourceReceived"} =>
               proxyErrors' = proxyErrors]_vars

C31_Witness ==
  /\ lastEvent.kind = "resourceReceived"
  /\ lastEvent.status = 302
  /\ lastEvent.resource.url # thisUrl
  /\ extractRedirectUrl(lastEvent.resource).hostname = "b.com"
  /\ redirectUrls = <<>>
  /\ Len(proxyErrors) = 1
  /\ proxyErrors[1].proxyIndicator = "redirect"

\* C32: goto injects the vendor files when the load ended with 'success' and
\* the proxy-error checkpoint passed, as its last step; a goto that fails in
\* whatever way has injected nothing.
C32_InjectsAfterTheCheckpoint ==
  [][/\ (OpenAnswered /\ lastOpen' = "success" /\ proxyErrors = <<>>) =>
          (injected' /\ outcome' = "ok" /\ pc' = "idle")
     /\ (OpenAnswered /\ ~(lastOpen' = "success" /\ proxyErrors = <<>>)) => ~injected'
     /\ gotos' # gotos => ~injected'
     /\ (injected' /\ ~injected) => OpenAnswered
     /\ (pc' = "idle" /\ outcome' # "ok" /\ outcome' # outcome) => ~injected']_vars

C32_Witness ==
  /\ injected
  /\ outcome = "ok"
  /\ lastOpen = "success"
  /\ Len(attempts) = 2
  /\ gotos = 2

\* C33: a page-error event changes neither the redirect chain, the proxy
\* errors, the waiter queues, the current proxy nor the outcome of the goto
\* in flight.
C33_PageErrorIsOnlyLogged ==
  [][(EventStep /\ lastEvent'.kind = "pageError") =>
       UNCHANGED <<redirectUrls, proxyErrors, requestingActions, waiters, navigationActions,
                   pageWaiters, proxyCurrent, outcome, pc>>]_vars

C33_Witness ==
  /\ lastEvent.kind = "pageError"
  /\ pc = "open"
  /\ outcome = "pending"
  /\ Len(redirectUrls) > 0
  /\ Len(proxyErrors) > 0

\* C34: with a single proxy configured, the failed load that ends the
\* MaxAttempts-th attempt ends the goto.
C34_SingleProxyGivesUp ==
  [][(OpenAnswered /\ lastOpen' = "fail" /\ proxy.kind = "single"
        /\ Len(attempts) = MaxAttempts) => pc' = "idle"]_vars

\* C35: the _validateProxy call that goto makes after a load leaves the
\* proxy-error list as it found it.
C35_CheckpointKeepsTheList ==
  [][(OpenAnswered /\ lastOpen' = "success") => proxyErrors' = proxyErrors]_vars

\* the redirect a response names
location(resource) ==
  IF resource.redirectUrl # NoUrl THEN resource.redirectUrl
  ELSE locationHeader(resource).value

\* the URL the engine requests next, which is the source of the next
\* response: the location itself, or the location's path at the scheme, host
\* and port of the response when the location names no host
followed(resource) ==
  IF location(resource).hostname # "" THEN location(resource)
  ELSE [resource.url EXCEPT !.path = location(resource).path]

\* C36: the tail stored for a 301/302 response is the URL the engine requests
\* next, so that the response to it is taken for the next hop of the chain.
C36_TailIsTheNextSource ==
  [][(EventStep /\ lastEvent'.kind = "resourceReceived" /\ redirectUrls' # redirectUrls) =>
       redirectUrls'[Len(redirectUrls')] = followed(lastEvent'.resource)]_vars

\* C37: every entry of the exit-handler list is the resolver of a tearDown
\* call that is not resolved and whose grace timer is armed, once; and no
\* tearDown call is resolved twice.
C37_HandlersBelongToPendingTearDowns ==
  /\ \A k \in 1..Len(exitHandlers) :
       /\ exitHandlers[k] \in 1..Len(tearDowns)
       /\ tearDowns[exitHandlers[k]].resolved = 0
       /\ tearDowns[exitHandlers[k]].timer
       /\ \A j \in 1..(k - 1) : exitHandlers[j] # exitHandlers[k]
  /\ \A t \in 1..Len(tearDowns) : tearDowns[t].resolved <= 1

C37_Witness ==
  /\ Len(tearDowns) > 0
  /\ tearDowns[1].by = "timer"
  /\ tearDowns[1].resolved = 1
  /\ lastExit.seen
  /\ lastExit.called = <<>>
  /\ exitHandlers = <<>>

\* C38: the browser bundle is injected at most once: an injectBrowserEnv call
\* injects it only if no earlier call has.
C38_BundleInjectedOnce == [][bundles' > bundles => bundles = 0]_vars

====
